---------------------------- MODULE Spec2Model ----------------------------
(***************************************************************************)
(* Intel 8080 emulator (spyce-nvaders): the CPU state and its instruction  *)
(* interpreter (cpu.py), the I/O bus and its interrupt queue (bus.py), the *)
(* devices (devices.py), the arcade loop (cpu.py main) and the diagnostic  *)
(* loop (tests.py execute_test).                                           *)
(*                                                                         *)
(* Python integers are unbounded, so registers, flags and SP are modelled  *)
(* as unbounded integers and every mask is applied exactly where the code  *)
(* applies one.  A Python bool is the integer 0 or 1.  memory is a         *)
(* bytearray: an index i < 0 means len + i, an index outside -len..len-1   *)
(* raises IndexError and a stored value outside 0..255 raises ValueError.  *)
(* An uncaught exception ends the process; exc records it.                 *)
(***************************************************************************)
EXTENDS Integers, Sequences, FiniteSets, TLC

VARIABLES
    a, b, c, d, e, h, l,   \* State.a .. State.l
    sp, pc,                \* State.sp, State.pc
    int_enable,            \* State.int_enable
    cycles,                \* State.cycles
    cc,                    \* State._cc : Flags (z, s, p, cy, ac)
    memory,                \* State.memory : bytearray, [len, cell]
    shft_reg,              \* devices['shft_reg'] : [register, offset]
    interrupts,            \* bus.interrupts : deque
    exc,                   \* "" while running, else how the process ended
    steps,                 \* loop iterations performed so far
    hist,                  \* the last executed instructions, newest first
    delivered              \* the interrupt opcodes executed so far, in order

vars == <<a, b, c, d, e, h, l, sp, pc, int_enable, cycles, cc, memory,
          shft_reg, interrupts, exc, steps, hist, delivered>>

(***************************************************************************)
(* Python integer operators                                                *)
(***************************************************************************)
RECURSIVE Pow2(_)
Pow2(n) == IF n = 0 THEN 1 ELSE 2 * Pow2(n - 1)

\* x << n
Shl(x, n) == x * Pow2(n)

\* x >> n (arithmetic: floor division, as Python's)
Shr(x, n) == x \div Pow2(n)

RECURSIVE NatAnd(_, _)
NatAnd(x, y) ==
    IF x = 0 \/ y = 0 THEN 0
    ELSE (x % 2) * (y % 2) + 2 * NatAnd(x \div 2, y \div 2)

RECURSIVE NatOr(_, _)
NatOr(x, y) ==
    IF x = 0 THEN y
    ELSE IF y = 0 THEN x
    ELSE (IF x % 2 = 1 \/ y % 2 = 1 THEN 1 ELSE 0) + 2 * NatOr(x \div 2, y \div 2)

RECURSIVE NatXor(_, _)
NatXor(x, y) ==
    IF x = 0 THEN y
    ELSE IF y = 0 THEN x
    ELSE (IF (x % 2) # (y % 2) THEN 1 ELSE 0) + 2 * NatXor(x \div 2, y \div 2)

RECURSIVE Cover(_)
\* the least power of two above the mask m >= 0
Cover(m) == IF m = 0 THEN 1 ELSE 2 * Cover(m \div 2)

\* x & m for a mask m >= 0; x may be negative (two's complement of any width)
And(x, m) == NatAnd(x % Cover(m), m)

\* x | y and x ^ y, both operands >= 0 wherever the code applies them
Or(x, y) == NatOr(x, y)
Xor(x, y) == NatXor(x, y)

RECURSIVE PopCount(_)
\* bin(n).count('1') for n >= 0
PopCount(n) == IF n = 0 THEN 0 ELSE (n % 2) + PopCount(n \div 2)

\* a Python bool as an integer
B2I(p) == IF p THEN 1 ELSE 0

(***************************************************************************)
(* cpu.py helpers                                                          *)
(***************************************************************************)
merge_bytes(high, low) == Or(Shl(high, 8), low)

\* <<high, low>>
extract_bytes(adr) == <<And(Shr(adr, 8), 255), And(adr, 255)>>

get_twos_comp(byte) == Xor(byte, 255) + 1

get_lsb(byte) == And(byte, 15)

parity(n) == B2I(PopCount(n) % 2 = 0)


(***************************************************************************)
(* The CPU as a value.  S is a record with the fields of cpu.State (a ..   *)
(* cycles, cc, memory), the shift register the bus routes to, and exc, the *)
(* exception raised so far ("" for none).  An operator below is a method   *)
(* of State: it maps S to the S the method leaves.                         *)
(***************************************************************************)

\* what arg1 / arg2 hold when PC + 1 / PC + 2 is past the end of memory
NoneVal == -1

\* a ROM byte the run has not looked at yet (the diagnostic program's bytes)
Unknown == -2

Raise(S, err) == [S EXCEPT !.exc = err]

Tick(S, n) == [S EXCEPT !.cycles = @ + n]

\* bytearray indexing: the cell an index names, -1 when it names none
Idx(mem, i) ==
    IF i >= 0 /\ i < mem.len THEN i
    ELSE IF i < 0 /\ i + mem.len >= 0 THEN i + mem.len
    ELSE -1

Valid(mem, i) == Idx(mem, i) # -1

\* memory[i] for a valid i; bytes never written are 0
Peek(mem, i) ==
    LET k == Idx(mem, i)
    IN  IF k \in DOMAIN mem.cell THEN mem.cell[k] ELSE 0

\* memory[i] = v
Store(S, i, v) ==
    IF ~Valid(S.memory, i) THEN Raise(S, "IndexError")
    ELSE IF v = NoneVal THEN Raise(S, "TypeError")
    ELSE IF v < 0 \/ v > 255 THEN Raise(S, "ValueError")
    ELSE LET k == Idx(S.memory, i)
         IN  [S EXCEPT !.memory.cell =
                 [x \in (DOMAIN @) \cup {k} |-> IF x = k THEN v ELSE @[x]]]

\* Flags.__int__
FlagsInt(f) ==
    Or(Or(Or(Or(Or(f.cy, 2), Shl(f.p, 2)), Shl(f.ac, 4)), Shl(f.z, 6)), Shl(f.s, 7))

\* State.cc setter
FlagsFromByte(val) ==
    [cy |-> B2I(And(val, 1) # 0),
     p  |-> B2I(And(val, 4) # 0),
     ac |-> B2I(And(val, 16) # 0),
     z  |-> B2I(And(val, 64) # 0),
     s  |-> B2I(And(val, 128) # 0)]

\* the properties bc, de, hl, psw and the plain attributes, read by name
Get(S, reg) ==
    CASE reg = "a" -> S.a
      [] reg = "b" -> S.b
      [] reg = "c" -> S.c
      [] reg = "d" -> S.d
      [] reg = "e" -> S.e
      [] reg = "h" -> S.h
      [] reg = "l" -> S.l
      [] reg = "sp" -> S.sp
      [] reg = "pc" -> S.pc
      [] reg = "bc" -> merge_bytes(S.b, S.c)
      [] reg = "de" -> merge_bytes(S.d, S.e)
      [] reg = "hl" -> merge_bytes(S.h, S.l)
      [] reg = "psw" -> merge_bytes(S.a, FlagsInt(S.cc))

\* setattr(self, reg, val), through the property setters
Set(S, reg, val) ==
    CASE reg = "a" -> [S EXCEPT !.a = val]
      [] reg = "b" -> [S EXCEPT !.b = val]
      [] reg = "c" -> [S EXCEPT !.c = val]
      [] reg = "d" -> [S EXCEPT !.d = val]
      [] reg = "e" -> [S EXCEPT !.e = val]
      [] reg = "h" -> [S EXCEPT !.h = val]
      [] reg = "l" -> [S EXCEPT !.l = val]
      [] reg = "sp" -> [S EXCEPT !.sp = val]
      [] reg = "pc" -> [S EXCEPT !.pc = val]
      [] reg = "bc" -> [S EXCEPT !.b = extract_bytes(val)[1], !.c = extract_bytes(val)[2]]
      [] reg = "de" -> [S EXCEPT !.d = extract_bytes(val)[1], !.e = extract_bytes(val)[2]]
      [] reg = "hl" -> [S EXCEPT !.h = extract_bytes(val)[1], !.l = extract_bytes(val)[2]]
      [] reg = "psw" -> [S EXCEPT !.a = extract_bytes(val)[1],
                                  !.cc = FlagsFromByte(extract_bytes(val)[2])]

hl(S) == Get(S, "hl")

calc_flags(S, ans) ==
    [S EXCEPT !.cc.z = B2I(And(ans, 255) = 0),
              !.cc.s = B2I(And(ans, 128) # 0),
              !.cc.cy = B2I(ans > 255),
              !.cc.p = parity(And(ans, 255))]

nop(S) == Tick(S, 4)

push(S, reg) ==
    LET w  == extract_bytes(Get(S, reg))
        S1 == Store(S, S.sp - 1, w[1])
        S2 == IF S1.exc # "" THEN S1 ELSE Store(S1, S.sp - 2, w[2])
    IN  IF S2.exc # "" THEN S2
        ELSE Tick([S2 EXCEPT !.sp = @ - 2], 11)

pop(S, reg) ==
    IF ~Valid(S.memory, S.sp + 1) \/ ~Valid(S.memory, S.sp) THEN Raise(S, "IndexError")
    ELSE LET S1 == Set(S, reg, merge_bytes(Peek(S.memory, S.sp + 1), Peek(S.memory, S.sp)))
         IN  Tick([S1 EXCEPT !.sp = @ + 2], 10)

lxi(S, reg, high, low) ==
    IF high = NoneVal \/ low = NoneVal THEN Raise(S, "TypeError")
    ELSE Tick([Set(S, reg, merge_bytes(high, low)) EXCEPT !.pc = @ + 2], 10)

dcr(S, reg) ==
    IF reg = "m"
    THEN IF ~Valid(S.memory, hl(S)) THEN Raise(S, "IndexError")
         ELSE LET ans == Peek(S.memory, hl(S)) - 1
                  S1  == Store(calc_flags(S, ans), hl(S), And(ans, 255))
              IN  IF S1.exc # "" THEN S1 ELSE Tick(S1, 10)
    ELSE LET ans == Get(S, reg) - 1
         IN  Tick(Set(calc_flags(S, ans), reg, And(ans, 255)), 5)

mvi_in_place(S, reg, val) ==
    LET S1 == IF reg = "m" THEN Store(S, hl(S), val) ELSE Set(S, reg, val)
    IN  IF S1.exc # "" THEN S1
        ELSE Tick(S1, IF reg = "m" THEN 10 ELSE 7)

mvi(S, reg, val) ==
    LET S1 == IF reg = "m" THEN Store(S, hl(S), val) ELSE Set(S, reg, val)
    IN  IF S1.exc # "" THEN S1
        ELSE [Tick(S1, IF reg = "m" THEN 10 ELSE 7) EXCEPT !.pc = @ + 1]

dad(S, reg) ==
    LET ans == hl(S) + Get(S, reg)
    IN  Tick(Set([S EXCEPT !.cc.cy = B2I(ans > 65535)], "hl", ans), 10)

inx(S, reg) == Tick(Set(S, reg, And(Get(S, reg) + 1, 65535)), 5)

dcx(S, reg) == Tick(Set(S, reg, And(Get(S, reg) - 1, 65535)), 5)

inr(S, reg) ==
    IF reg = "m"
    THEN IF ~Valid(S.memory, hl(S)) THEN Raise(S, "IndexError")
         ELSE LET ans == Peek(S.memory, hl(S)) + 1
                  S1  == Store(calc_flags(S, ans), hl(S), Peek(S.memory, hl(S)) + 1)
              IN  IF S1.exc # "" THEN S1 ELSE Tick(S1, 10)
    ELSE LET ans == Get(S, reg) + 1
         IN  Tick(Set(calc_flags(S, ans), reg, And(ans, 255)), 5)

(***************************************************************************)
(* ALU methods.  An operand src is <<"imm", n>> for a byte of the          *)
(* instruction (isinstance(reg, int)) or <<"reg", name>> for a register    *)
(* name, "m" included.  An immediate of None is no int and no "m", so it   *)
(* takes the register branch, where getattr(self, None) is a TypeError.    *)
(***************************************************************************)
IsImm(src) == src[1] = "imm" /\ src[2] # NoneVal

IsM(src) == src[1] = "reg" /\ src[2] = "m"

\* the operand's value could not be read: the exception, "" when it can
OperandExc(S, src) ==
    IF IsImm(src) THEN ""
    ELSE IF IsM(src) THEN (IF Valid(S.memory, hl(S)) THEN "" ELSE "IndexError")
    ELSE IF src[1] = "imm" THEN "TypeError"
    ELSE ""

Operand(S, src) ==
    IF IsImm(src) THEN src[2]
    ELSE IF IsM(src) THEN Peek(S.memory, hl(S))
    ELSE Get(S, src[2])

OperandCycles(src) == IF IsImm(src) \/ IsM(src) THEN 7 ELSE 4

add(S, src, carry) ==
    IF OperandExc(S, src) # "" THEN Raise(S, OperandExc(S, src))
    ELSE LET ans == S.a + Operand(S, src) + (IF carry THEN S.cc.cy ELSE 0)
             S1  == calc_flags(Tick(S, OperandCycles(src)), ans)
         IN  [S1 EXCEPT !.a = And(ans, 255)]

adc(S, src) == add(S, src, TRUE)

sub(S, src, carry) ==
    IF OperandExc(S, src) # "" THEN Raise(S, OperandExc(S, src))
    ELSE LET x0  == Operand(S, src) + (IF carry THEN S.cc.cy ELSE 0)
             x   == Xor(x0, 255) + 1
             ans == S.a + x
             S1  == Tick(S, OperandCycles(src))
         IN  [S1 EXCEPT !.cc.ac = B2I(And(x, 15) + And(S.a, 15) > 15),
                        !.cc.cy = B2I(ans <= 255),
                        !.cc.s = B2I(And(ans, 128) # 0),
                        !.cc.z = B2I(And(ans, 255) = 0),
                        !.cc.p = parity(And(ans, 255)),
                        !.a = And(ans, 255)]

sbb(S, src) == sub(S, src, TRUE)

ana(S, src) ==
    IF OperandExc(S, src) # "" THEN Raise(S, OperandExc(S, src))
    ELSE LET ans == NatAnd(S.a, Operand(S, src))
             S1  == calc_flags(Tick(S, OperandCycles(src)), ans)
         IN  [S1 EXCEPT !.a = And(ans, 255)]

ora(S, src) ==
    IF OperandExc(S, src) # "" THEN Raise(S, OperandExc(S, src))
    ELSE LET ans == Or(S.a, Operand(S, src))
             S1  == calc_flags(Tick(S, OperandCycles(src)), ans)
         IN  [S1 EXCEPT !.a = And(ans, 255)]

xra(S, src) ==
    IF OperandExc(S, src) # "" THEN Raise(S, OperandExc(S, src))
    ELSE LET ans == Xor(S.a, Operand(S, src))
             S1  == calc_flags(Tick(S, OperandCycles(src)), ans)
         IN  [S1 EXCEPT !.a = And(ans, 255)]

\* cmp reads memory[hl] for every operand that is not an int
cmp(S, src) ==
    IF ~IsImm(src) /\ ~Valid(S.memory, hl(S)) THEN Raise(S, "IndexError")
    ELSE LET tc_val == IF IsImm(src) THEN get_twos_comp(src[2])
                       ELSE get_twos_comp(Peek(S.memory, hl(S)))
             ans    == S.a + tc_val
             S1     == Tick(S, OperandCycles(src))
         IN  [S1 EXCEPT !.cc.ac = B2I(get_lsb(S.a) + get_lsb(tc_val) > 15),
                        !.cc.cy = B2I(ans <= 255),
                        !.cc.z = B2I(And(ans, 255) = 0),
                        !.cc.s = B2I(And(ans, 128) # 0),
                        !.cc.p = parity(ans)]

stax(S, reg) ==
    LET S1 == Store(S, Get(S, reg), S.a)
    IN  IF S1.exc # "" THEN S1 ELSE Tick(S1, 7)

\* rst, were self.int_enable = 0 left out
rst_keeping_ie(S, i) ==
    LET S1 == push(S, "pc")
    IN  IF S1.exc # "" THEN S1
        ELSE Tick([S1 EXCEPT !.pc = 8 * i], 11)

rst(S, i) ==
    LET S1 == push([S EXCEPT !.int_enable = 0], "pc")
    IN  IF S1.exc # "" THEN S1
        ELSE Tick([S1 EXCEPT !.pc = 8 * i], 11)

\* a condition is <<flag, opposite>>, or <<>> for the unconditional form
Taken(S, cond) == cond = <<>> \/ ((S.cc[cond[1]] # 0) # cond[2])

jmp(S, adr, cond) ==
    Tick(IF Taken(S, cond) THEN [S EXCEPT !.pc = adr] ELSE [S EXCEPT !.pc = @ + 3], 10)

ret_past(S, cond) ==
    IF Taken(S, cond)
    THEN IF ~Valid(S.memory, S.sp + 1) \/ ~Valid(S.memory, S.sp)
         THEN Raise(S, "IndexError")
         ELSE Tick([S EXCEPT !.pc = merge_bytes(Peek(S.memory, S.sp + 1),
                                                Peek(S.memory, S.sp)) + 1,
                             !.sp = @ + 2],
                   IF cond = <<>> THEN 10 ELSE 11)
    ELSE [Tick(S, 5) EXCEPT !.pc = @ + 1]

ret(S, cond) ==
    IF Taken(S, cond)
    THEN IF ~Valid(S.memory, S.sp + 1) \/ ~Valid(S.memory, S.sp)
         THEN Raise(S, "IndexError")
         ELSE Tick([S EXCEPT !.pc = merge_bytes(Peek(S.memory, S.sp + 1),
                                                Peek(S.memory, S.sp)),
                             !.sp = @ + 2],
                   IF cond = <<>> THEN 10 ELSE 11)
    ELSE [Tick(S, 5) EXCEPT !.pc = @ + 1]

\* call, were ret = self.pc + 3 written ret = self.pc
call_pushing_pc(S, adr, cond) ==
    IF Taken(S, cond)
    THEN LET S0 == Tick(S, 17)
             w  == extract_bytes(S.pc)
             S1 == Store(S0, S.sp - 1, w[1])
             S2 == IF S1.exc # "" THEN S1 ELSE Store(S1, S.sp - 2, w[2])
         IN  IF S2.exc # "" THEN S2
             ELSE [S2 EXCEPT !.sp = @ - 2, !.pc = adr]
    ELSE [Tick(S, 11) EXCEPT !.pc = @ + 3]

call(S, adr, cond) ==
    IF Taken(S, cond)
    THEN LET S0 == Tick(S, 17)
             w  == extract_bytes(S.pc + 3)
             S1 == Store(S0, S.sp - 1, w[1])
             S2 == IF S1.exc # "" THEN S1 ELSE Store(S1, S.sp - 2, w[2])
         IN  IF S2.exc # "" THEN S2
             ELSE [S2 EXCEPT !.sp = @ - 2, !.pc = adr]
    ELSE [Tick(S, 11) EXCEPT !.pc = @ + 3]

(***************************************************************************)
(* devices.py and bus.py                                                   *)
(***************************************************************************)
\* Controller._p1_reg, Controller._p2_reg: 0b00001100, 0b00000001
P1Reg == 12
P2Reg == 1

\* ShiftRegister.get_register
get_register(sr) == And(Shr(sr.register, sr.offset), 255)

\* ShiftRegister.shift
shift(sr, val) == [sr EXCEPT !.register = Or(Shr(@, 8), Shl(val, 8))]

\* ShiftRegister.set_offset
set_offset(sr, val) == [sr EXCEPT !.offset = And(val, 8)]

\* Bus.write: device_map_write[adr](val); ports 3, 5 and 6 are dummies
bus_write(S, adr, val) ==
    CASE adr = 2 -> [S EXCEPT !.shft_reg = set_offset(@, val)]
      [] adr = 4 -> [S EXCEPT !.shft_reg = shift(@, val)]
      [] adr \in {3, 5, 6} -> S
      [] OTHER -> Raise(S, "KeyError")

\* Bus.read: device_map_read[adr](), <<exception, value>>
bus_read(S, adr) ==
    CASE adr = 1 -> <<"", P1Reg>>
      [] adr = 2 -> <<"", P2Reg>>
      [] adr = 3 -> <<"", get_register(S.shft_reg)>>
      [] OTHER -> <<"KeyError", 0>>

\* Display.max_cycles = 2000000/60, a float: cycles >= max_cycles for an
\* integer cycle count is 60 * cycles >= 2000000
ClockHz == 2000000
FramesPerSecond == 60

\* Display.refresh: the opcodes it returns, <<>> for None
refresh(cyc) ==
    IF FramesPerSecond * cyc >= ClockHz THEN <<207, 215>> ELSE <<>>

(***************************************************************************)
(* emulate: the dispatcher.  Opcodes are written in hexadecimal (\hC9).    *)
(***************************************************************************)
\* the register a 3-bit field names: B, C, D, E, H, L, M, A
RegName(i) == <<"b", "c", "d", "e", "h", "l", "m", "a">>[i + 1]

\* the register pair bits 4-5 of an opcode name, for LXI, INX, DCX, DAD
PairSP(op) == <<"bc", "de", "hl", "sp">>[((op \div 16) % 4) + 1]

\* the register pair bits 4-5 of an opcode name, for PUSH and POP
PairPSW(op) == <<"bc", "de", "hl", "psw">>[((op \div 16) % 4) + 1]

\* the condition bits 3-5 of an opcode name: NZ, Z, NC, C, PO, PE, P, M
Cond(op) ==
    << <<"z", TRUE>>, <<"z", FALSE>>, <<"cy", TRUE>>, <<"cy", FALSE>>,
       <<"p", TRUE>>, <<"p", FALSE>>, <<"s", TRUE>>, <<"s", FALSE>> >>[((op \div 8) % 8) + 1]

NopOps  == {\h00, \h08, \h10, \h18, \h20, \h28, \h30, \h38}
\* 0x2a (LHLD) is dispatched to lxi('hl', arg2, arg1)
LxiOps  == {\h01, \h11, \h21, \h31, \h2A}
InxOps  == {\h03, \h13, \h23, \h33}
DcxOps  == {\h0B, \h1B, \h2B, \h3B}
DadOps  == {\h09, \h19, \h29, \h39}
InrOps  == {\h04, \h0C, \h14, \h1C, \h24, \h2C, \h34, \h3C}
DcrOps  == {\h05, \h0D, \h15, \h1D, \h25, \h2D, \h35, \h3D}
MviOps  == {\h06, \h0E, \h16, \h1E, \h26, \h2E, \h36, \h3E}
MovOps  == (\h40 .. \h7F) \ {\h76}
AluOps  == \h80 .. \hBF
ImmOps  == {\hC6, \hCE, \hD6, \hDE, \hE6, \hEE, \hF6, \hFE}
PushOps == {\hC5, \hD5, \hE5, \hF5}
PopOps  == {\hC1, \hD1, \hE1, \hF1}
RetOps  == {\hC9, \hD9}
RccOps  == {\hC0, \hC8, \hD0, \hD8, \hE0, \hE8, \hF0, \hF8}
JmpOps  == {\hC3}
JccOps  == {\hC2, \hCA, \hD2, \hDA, \hE2, \hEA, \hF2, \hFA}
CallOps == {\hCD, \hDD, \hED, \hFD}
CccOps  == {\hC4, \hCC, \hD4, \hDC, \hE4, \hEC, \hF4, \hFC}
RstOps  == {\hC7, \hCF, \hD7, \hDF, \hE7, \hEF, \hF7, \hFF}

\* the branches of emulate that end in "return": the final pc += 1 is skipped
ReturnOps == RetOps \cup RccOps \cup JmpOps \cup JccOps \cup CallOps \cup CccOps \cup RstOps

\* the operation bits 3-5 of an ALU opcode select
Alu(S, k, src) ==
    CASE k = 0 -> add(S, src, FALSE)
      [] k = 1 -> adc(S, src)
      [] k = 2 -> sub(S, src, FALSE)
      [] k = 3 -> sbb(S, src)
      [] k = 4 -> ana(S, src)
      [] k = 5 -> xra(S, src)
      [] k = 6 -> ora(S, src)
      [] k = 7 -> cmp(S, src)

Mov(S, dst, src) ==
    IF dst = src THEN Tick(S, 5)
    ELSE IF dst = "m"
    THEN LET S1 == Store(S, hl(S), Get(S, src))
         IN  IF S1.exc # "" THEN S1 ELSE Tick(S1, 7)
    ELSE IF src = "m"
    THEN IF ~Valid(S.memory, hl(S)) THEN Raise(S, "IndexError")
         ELSE Tick(Set(S, dst, Peek(S.memory, hl(S))), 7)
    ELSE Tick(Set(S, dst, Get(S, src)), 5)

Rlc(S) ==
    LET hb == And(S.a, 128)
    IN  Tick([S EXCEPT !.cc.cy = hb, !.a = Or(Shl(S.a, 1), hb)], 4)

Rrc(S) ==
    Tick([S EXCEPT !.a = Or(Shl(And(S.a, 1), 7), Shr(S.a, 1)),
                   !.cc.cy = B2I(And(S.a, 1) = 1)], 4)

Ral(S) ==
    Tick([S EXCEPT !.a = Or(Shl(S.a, 1), S.cc.cy),
                   !.cc.cy = B2I(And(S.a, 128) = 1)], 4)

Rar(S) ==
    Tick([S EXCEPT !.a = Or(Shl(S.cc.cy, 7), Shr(S.a, 1)),
                   !.cc.cy = B2I(And(S.a, 1) = 1)], 4)

Daa(S) ==
    LET lsb == And(S.a, 15)
        lo  == lsb > 9 \/ S.cc.ac # 0
        a1  == IF lo THEN And(S.a + 6, 255) ELSE S.a
        ac1 == IF lo THEN B2I(lsb + 6 > 15) ELSE S.cc.ac
        msb == Shr(a1, 4)
        hi  == msb > 9 \/ S.cc.cy # 0
        a2  == IF hi THEN And(a1 + 96, 255) ELSE a1
        cy2 == IF hi THEN B2I(msb + 6 > 15) ELSE 0
    IN  Tick([S EXCEPT !.a = a2, !.cc.ac = ac1, !.cc.cy = cy2,
                       !.cc.p = parity(a2),
                       !.cc.z = B2I(a2 = 0),
                       !.cc.s = B2I(And(a2, 128) # 0)], 4)

Shld(S, arg1, arg2) ==
    IF arg1 = NoneVal \/ arg2 = NoneVal THEN Raise(S, "TypeError")
    ELSE LET adr == merge_bytes(arg2, arg1)
             S1  == Store(S, adr, S.l)
             S2  == IF S1.exc # "" THEN S1 ELSE Store(S1, adr + 1, S.h)
         IN  IF S2.exc # "" THEN S2
             ELSE [Tick(S2, 16) EXCEPT !.pc = @ + 2]

Sta(S, arg1, arg2) ==
    IF arg1 = NoneVal \/ arg2 = NoneVal THEN Raise(S, "TypeError")
    ELSE LET S1 == Store(S, merge_bytes(arg2, arg1), S.a)
         IN  IF S1.exc # "" THEN S1
             ELSE [Tick(S1, 13) EXCEPT !.pc = @ + 2]

Lda(S, arg1, arg2) ==
    IF arg1 = NoneVal \/ arg2 = NoneVal THEN Raise(S, "TypeError")
    ELSE IF ~Valid(S.memory, merge_bytes(arg2, arg1)) THEN Raise(S, "IndexError")
    ELSE [Tick(S, 13) EXCEPT !.a = Peek(S.memory, merge_bytes(arg2, arg1)),
                             !.pc = @ + 2]

Ldax(S, reg) ==
    IF ~Valid(S.memory, Get(S, reg)) THEN Raise(S, "IndexError")
    ELSE Tick([S EXCEPT !.a = Peek(S.memory, Get(S, reg))], 7)

Out(S, arg1) ==
    LET S1 == IF arg1 = NoneVal THEN Raise(S, "KeyError") ELSE bus_write(S, arg1, S.a)
    IN  IF S1.exc # "" THEN S1
        ELSE [Tick(S1, 10) EXCEPT !.pc = @ + 1]

In(S, arg1) ==
    LET r == IF arg1 = NoneVal THEN <<"KeyError", 0>> ELSE bus_read(S, arg1)
    IN  IF r[1] # "" THEN Raise(S, r[1])
        ELSE [Tick(S, 10) EXCEPT !.a = r[2], !.pc = @ + 1]

Xthl(S) ==
    IF ~Valid(S.memory, S.sp) THEN Raise(S, "IndexError")
    ELSE LET S1 == Store([S EXCEPT !.l = Peek(S.memory, S.sp)], S.sp, S.l)
         IN  IF S1.exc # "" THEN S1
             ELSE IF ~Valid(S1.memory, S.sp + 1) THEN Raise(S1, "IndexError")
             ELSE LET S2 == Store([S1 EXCEPT !.h = Peek(S1.memory, S.sp + 1)],
                                  S.sp + 1, S.h)
                  IN  IF S2.exc # "" THEN S2 ELSE Tick(S2, 18)

Xchg(S) == Tick(Set(Set(S, "hl", Get(S, "de")), "de", Get(S, "hl")), 5)

\* an immediate ALU instruction: the method, then pc += 1
AluImm(S, op, arg1) ==
    LET S1 == Alu(S, (op \div 8) % 8, <<"imm", arg1>>)
    IN  IF S1.exc # "" THEN S1 ELSE [S1 EXCEPT !.pc = @ + 1]

\* the branches that end in "return state.xxx(...)"
Control(S, op, arg1, arg2) ==
    IF op \in RstOps THEN rst(S, (op \div 8) % 8)
    ELSE IF op \in RetOps THEN ret(S, <<>>)
    ELSE IF op \in RccOps THEN ret(S, Cond(op))
    ELSE IF arg1 = NoneVal \/ arg2 = NoneVal THEN Raise(S, "TypeError")
    ELSE IF op \in JmpOps THEN jmp(S, merge_bytes(arg2, arg1), <<>>)
    ELSE IF op \in JccOps THEN jmp(S, merge_bytes(arg2, arg1), Cond(op))
    ELSE IF op \in CallOps THEN call(S, merge_bytes(arg2, arg1), <<>>)
    ELSE call(S, merge_bytes(arg2, arg1), Cond(op))

\* the branches that fall through to the final pc += 1
Body(S, op, arg1, arg2) ==
    CASE op \in NopOps -> nop(S)
      [] op \in LxiOps -> lxi(S, PairSP(op), arg2, arg1)
      [] op \in {\h02, \h12} -> stax(S, PairSP(op))
      [] op \in InxOps -> inx(S, PairSP(op))
      [] op \in DcxOps -> dcx(S, PairSP(op))
      [] op \in DadOps -> dad(S, PairSP(op))
      [] op \in InrOps -> inr(S, RegName(op \div 8))
      [] op \in DcrOps -> dcr(S, RegName(op \div 8))
      [] op \in MviOps -> mvi(S, RegName(op \div 8), arg1)
      [] op = \h07 -> Rlc(S)
      [] op = \h0F -> Rrc(S)
      [] op = \h17 -> Ral(S)
      [] op = \h1F -> Rar(S)
      [] op \in {\h0A, \h1A} -> Ldax(S, PairSP(op))
      [] op = \h22 -> Shld(S, arg1, arg2)
      [] op = \h27 -> Daa(S)
      [] op = \h2F -> Tick([S EXCEPT !.a = Xor(@, 255)], 4)
      [] op = \h32 -> Sta(S, arg1, arg2)
      [] op = \h37 -> Tick([S EXCEPT !.cc.cy = 1], 4)
      [] op = \h3A -> Lda(S, arg1, arg2)
      [] op = \h3F -> [S EXCEPT !.cc.cy = Xor(@, 1)]
      [] op = \h76 -> Raise([S EXCEPT !.cycles = 7], "exit(0)")
      [] op \in MovOps -> Mov(S, RegName((op \div 8) % 8), RegName(op % 8))
      [] op \in AluOps -> Alu(S, (op \div 8) % 8, <<"reg", RegName(op % 8)>>)
      [] op \in ImmOps -> AluImm(S, op, arg1)
      [] op \in PopOps -> pop(S, PairPSW(op))
      [] op \in PushOps -> push(S, PairPSW(op))
      [] op = \hD3 -> Out(S, arg1)
      [] op = \hDB -> In(S, arg1)
      [] op = \hE3 -> Xthl(S)
      [] op = \hE9 -> Tick([S EXCEPT !.pc = hl(S)], 5)
      [] op = \hEB -> Xchg(S)
      [] op = \hF3 -> Tick([S EXCEPT !.int_enable = 0], 4)
      [] op = \hF9 -> [S EXCEPT !.sp = hl(S)]
      [] op = \hFB -> Tick([S EXCEPT !.int_enable = 1], 4)
      [] OTHER -> Raise(S, "NotImplementedError")

\* a register left None by MVI r at the last byte of memory
HasNone(S) == NoneVal \in {S.a, S.b, S.c, S.d, S.e, S.h, S.l}

\* state.pc += 1, the last statement of emulate
Advance(S) == IF S.exc # "" THEN S ELSE [S EXCEPT !.pc = @ + 1]

\* emulate, once opcode, arg1 and arg2 are known.  Arithmetic on a register
\* that holds None is a TypeError; the model raises it for every instruction
\* that starts with such a register.
Execute(S, op, arg1, arg2) ==
    IF HasNone(S) THEN Raise(S, "TypeError")
    ELSE IF op \in ReturnOps THEN Control(S, op, arg1, arg2)
    ELSE Advance(Body(S, op, arg1, arg2))

(***************************************************************************)
(* The fetch of emulate.  The bytes of a program file the run has not read *)
(* yet are Unknown: the first read of such a byte, as an opcode, as an     *)
(* operand or as data, chooses its value and stores it, so that every      *)
(* later read sees the same byte.  The run thus ranges over all the        *)
(* programs that can be written with the bytes offered.                    *)
(***************************************************************************)
ThreeByteOps == LxiOps \cup {\h22, \h32, \h3A} \cup JmpOps \cup JccOps \cup CallOps \cup CccOps

UsesArg1(op) == op \in ThreeByteOps \cup MviOps \cup ImmOps \cup {\hD3, \hDB}

UsesArg2(op) == op \in ThreeByteOps

IsUnknown(mem, i) == Valid(mem, i) /\ Peek(mem, i) = Unknown

\* the values memory[i] can turn out to hold
CellVals(mem, i, choices) == IF IsUnknown(mem, i) THEN choices ELSE {Peek(mem, i)}

\* arg1 = None if (pc + 1) >= len(memory) else memory[pc + 1]
ArgVals(mem, i, used, choices) ==
    IF i >= mem.len THEN {NoneVal}
    ELSE IF used THEN CellVals(mem, i, choices)
    ELSE {Peek(mem, i)}

\* the byte at a valid index is v from now on
Pin(mem, i, v) ==
    IF IsUnknown(mem, i) THEN [mem EXCEPT !.cell[Idx(mem, i)] = v] ELSE mem

\* the indices an instruction reads as data
DataReads(S, op, arg1, arg2) ==
    IF HasNone(S) THEN {}
    ELSE IF \/ op \in MovOps /\ op % 8 = 6
            \/ op \in AluOps /\ (op % 8 = 6 \/ (op \div 8) % 8 = 7)
            \/ op = \hFE /\ arg1 = NoneVal
            \/ op \in {\h34, \h35}
    THEN {hl(S)}
    ELSE IF op \in {\h0A, \h1A} THEN {Get(S, PairSP(op))}
    ELSE IF op = \h3A /\ arg1 # NoneVal /\ arg2 # NoneVal THEN {merge_bytes(arg2, arg1)}
    ELSE IF \/ op \in PopOps \cup RetOps \cup {\hE3}
            \/ op \in RccOps /\ Taken(S, Cond(op))
    THEN {S.sp, S.sp + 1}
    ELSE {}

\* the memories that resolve every Unknown byte among the indices rd
Resolved(mem, rd, choices) ==
    LET U == {Idx(mem, i) : i \in {j \in rd : IsUnknown(mem, j)}}
    IN  {[mem EXCEPT !.cell = [k \in DOMAIN @ |-> IF k \in U THEN f[k] ELSE @[k]]] :
            f \in [U -> choices]}

\* the ways emulate(state) can go: <<opcode, arg1, arg2, state left>>
Emulations(S, Ops, Args, Datas) ==
    IF ~Valid(S.memory, S.pc)
    THEN {<<NoneVal, NoneVal, NoneVal, Raise(S, "IndexError")>>}
    ELSE UNION {
           UNION {
             UNION {
               LET m1 == Pin(S.memory, S.pc, op)
                   m2 == IF UsesArg1(op) /\ arg1 # NoneVal THEN Pin(m1, S.pc + 1, arg1) ELSE m1
                   m3 == IF UsesArg2(op) /\ arg2 # NoneVal THEN Pin(m2, S.pc + 2, arg2) ELSE m2
                   S3 == [S EXCEPT !.memory = m3]
               IN  {<<op, arg1, arg2, Execute([S3 EXCEPT !.memory = m4], op, arg1, arg2)>> :
                       m4 \in Resolved(m3, DataReads(S3, op, arg1, arg2), Datas)}
               : arg2 \in ArgVals(S.memory, S.pc + 2, UsesArg2(op), Args) }
             : arg1 \in ArgVals(S.memory, S.pc + 1, UsesArg1(op), Args) }
           : op \in CellVals(S.memory, S.pc, Ops) }

(***************************************************************************)
(* The state of the program                                                *)
(***************************************************************************)
Cur ==
    [a |-> a, b |-> b, c |-> c, d |-> d, e |-> e, h |-> h, l |-> l,
     sp |-> sp, pc |-> pc, int_enable |-> int_enable, cycles |-> cycles,
     cc |-> cc, memory |-> memory, shft_reg |-> shft_reg, exc |-> exc]

Commit(S) ==
    /\ a' = S.a /\ b' = S.b /\ c' = S.c /\ d' = S.d /\ e' = S.e
    /\ h' = S.h /\ l' = S.l /\ sp' = S.sp /\ pc' = S.pc
    /\ int_enable' = S.int_enable /\ cycles' = S.cycles /\ cc' = S.cc
    /\ memory' = S.memory /\ shft_reg' = S.shft_reg /\ exc' = S.exc

\* what an instruction found: the registers, flags, stack pointer and shift
\* register before it
Snapshot(S) ==
    [a |-> S.a, b |-> S.b, c |-> S.c, d |-> S.d, e |-> S.e, h |-> S.h, l |-> S.l,
     sp |-> S.sp, pc |-> S.pc, int_enable |-> S.int_enable, cycles |-> S.cycles,
     cc |-> S.cc, shft_reg |-> S.shft_reg]

\* how many executed instructions hist keeps
HistLen == 3

\* hist after an instruction: its opcode and operand bytes, whether it came
\* from the interrupt queue, whether it completed, and the state it found
Record(op, arg1, arg2, irq, S0, S1) ==
    SubSeq(<<[op |-> op, arg1 |-> arg1, arg2 |-> arg2, irq |-> irq,
              done |-> S1.exc = "", pre |-> Snapshot(S0)]>> \o hist,
           1, IF Len(hist) + 1 > HistLen THEN HistLen ELSE Len(hist) + 1)

\* State.__init__ over a memory image, Flags.__init__, ShiftRegister.__init__
\* and Bus.__init__
InitState(mem, start, cyc) ==
    /\ a = 0 /\ b = 0 /\ c = 0 /\ d = 0 /\ e = 0 /\ h = 0 /\ l = 0
    /\ sp = 0 /\ pc = start /\ int_enable = 0 /\ cycles = cyc
    /\ cc = [z |-> 0, s |-> 0, p |-> 0, cy |-> 0, ac |-> 0]
    /\ memory = mem
    /\ shft_reg = [register |-> 0, offset |-> 0]
    /\ interrupts = <<>>
    /\ exc = ""
    /\ steps = 0
    /\ hist = <<>>
    /\ delivered = <<>>

\* bytearray(memory) + bytearray(0x8000): the RAM State.__init__ appends
RamLen == 32768

(***************************************************************************)
(* tests.py: execute_test, the loop that runs a diagnostic program         *)
(***************************************************************************)
\* the length of the diagnostic program file
TestLen == 16

\* state.memory = bytearray(0x100) + state.memory: where the program starts
TestBase == 256

\* execute_test up to its loop: the file's bytes are Unknown, RET is patched
\* in at 5 and PC starts at 0x100
TestMemory ==
    [len  |-> TestBase + TestLen + RamLen,
     cell |-> [k \in {5} \cup (TestBase .. TestBase + TestLen - 1) |->
                  IF k = 5 THEN \hC9 ELSE Unknown]]

InitTest == InitState(TestMemory, TestBase, 0)

\* the CP/M stub's print loop (C == 9) finds a '$' at or after DE; no byte
\* offered to a program below is '$' (0x24), so an Unknown byte is none
HasDollar(mem, from) == \E k \in DOMAIN mem.cell : k >= from /\ mem.cell[k] = 36

\* one iteration of the while loop of execute_test, over programs written
\* with the opcodes Ops, the operand bytes Args and the data bytes Datas,
\* followed for Max iterations
TestStep(Ops, Args, Datas, Max) ==
    /\ exc = ""
    /\ steps < Max
    /\ steps' = steps + 1
    /\ UNCHANGED <<interrupts, delivered>>
    /\ \E r \in Emulations(Cur, Ops, Args, Datas) :
          IF r[1] = NoneVal
          THEN \* state.memory[state.pc] raises
               Commit(r[4]) /\ UNCHANGED hist
          ELSE IF r[1] = \h76
          THEN \* HLT: sys.exit(1)
               Commit([Cur EXCEPT !.memory = r[4].memory, !.exc = "exit(1)"])
               /\ UNCHANGED hist
          ELSE IF pc = 5 /\ ~HasNone(Cur) /\ c = 9 /\ ~HasDollar(memory, Get(Cur, "de"))
          THEN \* the print loop runs off the end of memory
               Commit(Raise(Cur, "IndexError")) /\ UNCHANGED hist
          ELSE /\ hist' = Record(r[1], r[2], r[3], FALSE, Cur, r[4])
               /\ IF r[4].exc = "" /\ r[4].pc = 0
                  THEN \* "Jump to 0000": execute_test returns, main exits
                       Commit([r[4] EXCEPT !.exc = "exit(0)"])
                  ELSE Commit(r[4])

(***************************************************************************)
(* Diagnostic programs for the stack and the rotates                       *)
(***************************************************************************)
\* CMA, RLC, RAL, MOV B,A, PUSH B, POP B, PUSH PSW, POP PSW, LXI SP
StackOps == {\h2F, \h07, \h17, \h47, \hC5, \hC1, \hF5, \hF1, \h31}
MaxStackSteps == 5

NextStack == TestStep(StackOps, {\h00, \hFF}, {\h00, \h80}, MaxStackSteps)

SpecStack == InitTest /\ [][NextStack]_vars

(***************************************************************************)
(* Diagnostic programs for calls and returns                               *)
(***************************************************************************)
\* CALL, CALL* (0xDD), CZ, RET, XRA A, INX SP, LXI SP
CallProgOps == {\hCD, \hDD, \hCC, \hC9, \hAF, \h33, \h31}
MaxCallSteps == 4

NextCall == TestStep(CallProgOps, {\h00, \h05}, {\h00, \h01}, MaxCallSteps)

SpecCall == InitTest /\ [][NextCall]_vars

(***************************************************************************)
(* Diagnostic programs for the flags                                       *)
(***************************************************************************)
\* MVI A, MVI B, ADD B, SUB B, ANA B, XRA B, ORA B, CMP B, CPI, ADI,
\* INR A, DCR A, DAA
FlagProgOps == {\h3E, \h06, \h80, \h90, \hA0, \hA8, \hB0, \hB8, \hFE, \hC6,
                \h3C, \h3D, \h27}
MaxFlagSteps == 3

NextFlags == TestStep(FlagProgOps, {\h00, \h0F, \hFF}, {\h00, \hFF}, MaxFlagSteps)

SpecFlags == InitTest /\ [][NextFlags]_vars

(***************************************************************************)
(* Diagnostic programs for the arithmetic and the compares                 *)
(***************************************************************************)
\* MVI A, MVI B, STC, ADD B, ADC B, ADI, ACI, SUB B, SBB B, SUI, SBI, CMP B,
\* CMP M, CPI
AluProgOps == {\h3E, \h06, \h37, \h80, \h88, \hC6, \hCE, \h90, \h98, \hD6, \hDE,
               \hB8, \hBE, \hFE}
MaxAluSteps == 3

NextAlu == TestStep(AluProgOps, {\h00, \h3A, \hC6, \hFF}, {\h00}, MaxAluSteps)

SpecAlu == InitTest /\ [][NextAlu]_vars

\* the value of the operand an ALU instruction names: the byte that follows
\* an immediate form, the byte at HL for M, the register otherwise
SourceValue(rec) ==
    IF rec.op \in ImmOps THEN rec.arg1
    ELSE IF rec.op % 8 = 6 THEN Peek(memory, merge_bytes(rec.pre.h, rec.pre.l))
    ELSE Get(rec.pre, RegName(rec.op % 8))

(***************************************************************************)
(* A diagnostic program for the shift register: MVI A,o; OUT 2; MVI A,x;   *)
(* OUT 4; MVI A,y; OUT 4; IN 3, with the bytes o, x and y Unknown          *)
(***************************************************************************)
ShiftProg ==
    <<\h3E, Unknown, \hD3, 2, \h3E, Unknown, \hD3, 4, \h3E, Unknown, \hD3, 4, \hDB, 3>>

ShiftMemory ==
    [len  |-> TestBase + Len(ShiftProg) + RamLen,
     cell |-> [k \in {5} \cup (TestBase .. TestBase + Len(ShiftProg) - 1) |->
                  IF k = 5 THEN \hC9 ELSE ShiftProg[k - TestBase + 1]]]

InitShift == InitState(ShiftMemory, TestBase, 0)

\* the offsets 0..7 and two data bytes
MaxShiftSteps == 7

NextShift == TestStep({\h00}, (0 .. 7) \cup {\hAA, \hBB}, {\h00}, MaxShiftSteps)

SpecShift == InitShift /\ [][NextShift]_vars

(***************************************************************************)
(* Diagnostic programs for the ports                                       *)
(***************************************************************************)
\* MVI A, OUT, IN
PortProgOps == {\h3E, \hD3, \hDB}
\* the ports 0..7 and 255, which are also the bytes MVI A loads
MaxPortSteps == 3

NextPorts == TestStep(PortProgOps, (0 .. 7) \cup {\hFF}, {\h00}, MaxPortSteps)

SpecPorts == InitTest /\ [][NextPorts]_vars

(***************************************************************************)
(* Diagnostic programs that start with any opcode                          *)
(***************************************************************************)
AllOps == 0 .. 255
MaxOpcodeSteps == 1

NextOpcodes == TestStep(AllOps, {\h00}, {\h00}, MaxOpcodeSteps)

SpecOpcodes == InitTest /\ [][NextOpcodes]_vars

(***************************************************************************)
(* Diagnostic programs for absolute addresses                              *)
(***************************************************************************)
\* LXI H, SHLD, LHLD (0x2A), PCHL, STA, LDA, MVI A
AddrProgOps == {\h21, \h22, \h2A, \hE9, \h32, \h3A, \h3E}
MaxAddrSteps == 3

NextAddr == TestStep(AddrProgOps, {\h00, \hC0, \hFF}, {\h00, \h01}, MaxAddrSteps)

SpecAddr == InitTest /\ [][NextAddr]_vars

(***************************************************************************)
(* Diagnostic programs for the register-pair exchange                      *)
(***************************************************************************)
\* CMA, RLC, MOV H,A, XCHG, LXI D
XchgProgOps == {\h2F, \h07, \h67, \hEB, \h11}
MaxXchgSteps == 5

NextXchg == TestStep(XchgProgOps, {\h12, \h34}, {\h00}, MaxXchgSteps)

SpecXchg == InitTest /\ [][NextXchg]_vars

(***************************************************************************)
(* Diagnostic programs for the program counter: one instruction that sets  *)
(* the flags, then any opcode                                              *)
(***************************************************************************)
\* NOP, XRA A (Z, P), STC (CY), DCR A (S, P)
SetupOps == {\h00, \hAF, \h37, \h3D}
MaxAdvanceSteps == 2

NextAdvance ==
    TestStep(IF steps = 0 THEN SetupOps ELSE AllOps,
             {\h02}, {\h00}, MaxAdvanceSteps)

SpecAdvance == InitTest /\ [][NextAdvance]_vars

(***************************************************************************)
(* Diagnostic programs for the single-operand instructions: increments,    *)
(* decrements, rotates and the decimal adjust                              *)
(***************************************************************************)
\* MVI A, MVI M, STC, INR A, DCR A, INR B, DCR B, INR M, DCR M, RLC, RRC,
\* RAL, RAR, DAA
UnaryProgOps == {\h3E, \h36, \h37, \h3C, \h3D, \h04, \h05, \h34, \h35,
                 \h07, \h0F, \h17, \h1F, \h27}
MaxUnarySteps == 3

NextUnary == TestStep(UnaryProgOps, {\h00, \h0A, \h81, \hFF}, {\h00}, MaxUnarySteps)

SpecUnary == InitTest /\ [][NextUnary]_vars

(***************************************************************************)
(* cpu.py: main, the arcade loop.  The ROM is a program of the shape the   *)
(* arcade ROM has: a start that may enable interrupts and then spins in a  *)
(* JMP, and one handler at each of the vectors 0x08 and 0x10 that ends in  *)
(* RET.  Its first opcode, the low byte of the JMP's target and the first  *)
(* opcode of each handler are Unknown.                                     *)
(***************************************************************************)
\* the length of the ROM file
RomLen == 18

MainRom ==
    [k \in 0 .. RomLen - 1 |->
        CASE k \in {0, 2, 8, 16} -> Unknown
          [] k = 1 -> \hC3
          [] k \in {9, 17} -> \hC9
          [] OTHER -> \h00]

MainMemory == [len |-> RomLen + RamLen, cell |-> MainRom]

\* NOP, EI, DI, HLT, RST 1
MainOps == {\h00, \hFB, \hF3, \h76, \hCF}

\* the cycle count past which a run that polls no timer is not followed
CycleCap == 33400

\* the queue length past which a run is not followed
MaxQueue == 3

Init == InitState(MainMemory, 0, 0)

\* Bus.loop, were the queue replaced by the opcodes of refresh
bus_loop_replacing(queue, cyc) == refresh(cyc)

\* Bus.loop: the queue it leaves; it returns True iff refresh returned opcodes
bus_loop(queue, cyc) == queue \o refresh(cyc)

\* the test, were "if state.int_enable:" left out
Fires_unmasked == refresh(cycles) # <<>>

\* "if state.int_enable: if bus.loop(state.cycles):" is taken
Fires == int_enable # 0 /\ refresh(cycles) # <<>>

\* the branch "if state.int_enable: if bus.loop(state.cycles):" of the loop:
\* the timer fired, the cycle counter is reset and the opcode at the head of
\* the queue is executed in place of a fetch
MainInterrupt ==
    /\ exc = ""
    /\ Fires
    /\ Len(interrupts) < MaxQueue
    /\ \E q \in {bus_loop(interrupts, cycles)} :
       \E S1 \in {Execute([Cur EXCEPT !.cycles = 0], Head(q), NoneVal, NoneVal)} :
          /\ interrupts' = Tail(q)
          /\ Commit(S1)
          /\ hist' = Record(Head(q), NoneVal, NoneVal, TRUE, Cur, S1)
          /\ delivered' = Append(delivered, Head(q))
    /\ steps' = steps + 1

\* the rest of the loop: emulate(state, args.debug)
MainFetch ==
    /\ exc = ""
    /\ ~Fires
    /\ cycles < CycleCap
    /\ \E r \in Emulations(Cur, MainOps, {\h00, \h01}, {\h00}) :
          /\ Commit(r[4])
          /\ hist' = IF r[1] = NoneVal THEN hist
                     ELSE Record(r[1], r[2], r[3], FALSE, Cur, r[4])
    /\ UNCHANGED <<interrupts, delivered>>
    /\ steps' = steps + 1

Next == MainInterrupt \/ MainFetch

Spec == Init /\ [][Next]_vars

(***************************************************************************)
(* The display timer on its own: Bus.loop applied once to a cycle count    *)
(***************************************************************************)
\* the largest cycle count the timer is polled with
MaxCycleInput == 34000

InitDisplay == \E cyc \in 0 .. MaxCycleInput : InitState(MainMemory, 0, cyc)

\* Bus.loop(state.cycles)
BusLoop ==
    /\ steps = 0
    /\ interrupts' = bus_loop(interrupts, cycles)
    /\ steps' = 1
    /\ UNCHANGED <<a, b, c, d, e, h, l, sp, pc, int_enable, cycles, cc, memory,
                   shft_reg, exc, hist, delivered>>

NextDisplay == BusLoop

SpecDisplay == InitDisplay /\ [][NextDisplay]_vars


(***************************************************************************)
(* Properties of the register file and the stack                          *)
(***************************************************************************)
\* C1: after every executed instruction each of the 8-bit registers A, B, C,
\* D, E, H and L holds a value in 0..255, the rotates RLC and RAL and a MOV
\* that copies A included.
C1_RegistersAreBytes ==
    (hist # <<>> /\ hist[1].done) =>
        \A r \in {a, b, c, d, e, h, l} : r \in 0 .. 255

\* C2: after every executed instruction PC and SP lie in 0..65535: a PUSH,
\* CALL or RST with SP = 0 or 1 leaves SP = 0xFFFE or 0xFFFF, a POP or RET
\* with SP = 0xFFFE or 0xFFFF leaves 0 or 1.
C2_PcSpAreWords ==
    (hist # <<>> /\ hist[1].done) =>
        /\ pc \in 0 .. 65535
        /\ sp \in 0 .. 65535
        /\ (hist[1].op \in PushOps \cup CallOps \cup RstOps /\ hist[1].pre.sp \in {0, 1})
              => sp = hist[1].pre.sp + 65534

\* C3: a CALL addr executed at p (unconditional, alias, or conditional and
\* taken) leaves the word on top of the stack equal to p + 3, PC equal to
\* addr and SP two below; the RET executed next leaves PC = p + 3 and SP as
\* it was before the CALL.
C3_CallThenRet ==
    /\ (/\ hist # <<>>
        /\ hist[1].done
        /\ hist[1].op \in CallOps \cup CccOps
        /\ Taken(hist[1].pre, IF hist[1].op \in CallOps THEN <<>> ELSE Cond(hist[1].op)))
          => /\ merge_bytes(Peek(memory, sp + 1), Peek(memory, sp)) = hist[1].pre.pc + 3
             /\ pc = merge_bytes(hist[1].arg2, hist[1].arg1)
             /\ sp = hist[1].pre.sp - 2
    /\ (/\ Len(hist) >= 2
        /\ hist[2].done
        /\ hist[2].op \in CallOps \cup CccOps
        /\ Taken(hist[2].pre, IF hist[2].op \in CallOps THEN <<>> ELSE Cond(hist[2].op))
        /\ hist[1].done
        /\ hist[1].op \in RetOps)
          => /\ pc = hist[2].pre.pc + 3
             /\ sp = hist[2].pre.sp

\* C3's case: CALL 0x0005 at 0x0100, and the RET patched in at 0x0005 has
\* returned to 0x0103
C3_Returned ==
    /\ Len(hist) >= 2
    /\ hist[2].done /\ hist[2].op = \hCD /\ hist[2].pre.pc = TestBase
    /\ hist[2].arg1 = 5 /\ hist[2].arg2 = 0
    /\ hist[1].done /\ hist[1].op = \hC9 /\ hist[1].pre.pc = 5
    /\ pc = TestBase + 3

\* C4: for rp among BC, DE and HL, PUSH rp immediately followed by POP rp
\* leaves rp, SP and the five flags as they were before the PUSH.
C4_PushPopIdentity ==
    (/\ Len(hist) >= 2
     /\ hist[2].done /\ hist[2].op \in {\hC5, \hD5, \hE5}
     /\ hist[1].done /\ hist[1].op = hist[2].op - 4)
       => /\ hist[1].op = \hC1 => (b = hist[2].pre.b /\ c = hist[2].pre.c)
          /\ hist[1].op = \hD1 => (d = hist[2].pre.d /\ e = hist[2].pre.e)
          /\ hist[1].op = \hE1 => (h = hist[2].pre.h /\ l = hist[2].pre.l)
          /\ sp = hist[2].pre.sp
          /\ cc = hist[2].pre.cc

\* C5: PUSH PSW leaves on top of the stack a flag byte with CY in bit 0, 1 in
\* bit 1, P in bit 2, AC in bit 4, Z in bit 6, S in bit 7 and 0 in bits 3 and
\* 5; PUSH PSW immediately followed by POP PSW leaves A and the flags Z, S,
\* P, CY and AC as they were before the PUSH.
C5_PswRoundTrip ==
    /\ (hist # <<>> /\ hist[1].done /\ hist[1].op = \hF5)
          => LET byte == Peek(memory, sp)
                 f    == hist[1].pre.cc
             IN  /\ And(byte, 1) = B2I(f.cy # 0)
                 /\ And(byte, 2) = 2
                 /\ And(byte, 4) = 4 * B2I(f.p # 0)
                 /\ And(byte, 8) = 0
                 /\ And(byte, 16) = 16 * B2I(f.ac # 0)
                 /\ And(byte, 32) = 0
                 /\ And(byte, 64) = 64 * B2I(f.z # 0)
                 /\ And(byte, 128) = 128 * B2I(f.s # 0)
    /\ (/\ Len(hist) >= 2
        /\ hist[2].done /\ hist[2].op = \hF5
        /\ hist[1].done /\ hist[1].op = \hF1)
          => /\ a = hist[2].pre.a
             /\ cc = hist[2].pre.cc


(***************************************************************************)
(* Properties of the interrupts                                            *)
(***************************************************************************)
\* C6 (as stated): when the timer fires with IE = 1 the loop executes RST 1,
\* and the immediately following iteration executes RST 2, jumping to
\* 0x0010, with no instruction fetched in between.
C6_RstPairBackToBack ==
    (Len(hist) >= 2 /\ hist[2].irq /\ hist[2].op = \hCF) =>
        (hist[1].irq /\ hist[1].op = \hD7 /\ pc = 16)

\* C6 (amended): when the timer fires with IE = 1 the loop enqueues 0xCF,
\* 0xD7 and executes the opcode at the head of the queue in place of a
\* fetch: the RST pushes the current PC without advancing it, clears IE and
\* jumps to its vector.  The first opcode delivered is RST 1 (to 0x0008) and
\* leaves RST 2 queued; the immediately following iteration fetches the
\* instruction at the vector; the second opcode delivered, at a later firing
\* with IE = 1, is RST 2 (to 0x0010).
C6_InterruptDelivery ==
    /\ (hist # <<>> /\ hist[1].irq) =>
          /\ hist[1].done
          /\ hist[1].pre.int_enable # 0
          /\ refresh(hist[1].pre.cycles) = <<\hCF, \hD7>>
          /\ hist[1].op = delivered[Len(delivered)]
          /\ hist[1].op \in {\hCF, \hD7}
          /\ pc = 8 * ((hist[1].op \div 8) % 8)
          /\ merge_bytes(Peek(memory, sp + 1), Peek(memory, sp)) = hist[1].pre.pc
          /\ sp = hist[1].pre.sp - 2
          /\ int_enable = 0
    /\ (Len(delivered) = 1 /\ hist[1].irq) => (pc = 8 /\ interrupts = <<\hD7>>)
    /\ Len(delivered) >= 1 => delivered[1] = \hCF
    /\ Len(delivered) >= 2 => delivered[2] = \hD7
    /\ (Len(hist) >= 2 /\ hist[2].irq) =>
          /\ ~hist[1].irq
          /\ hist[1].pre.pc = 8 * ((hist[2].op \div 8) % 8)

\* C6's case: RST 1 was delivered, its handler re-enabled the interrupts and
\* returned, and RST 2 has just been delivered at the next firing
C6_SecondDelivered ==
    /\ Len(delivered) = 2
    /\ hist # <<>> /\ hist[1].irq /\ hist[1].op = \hD7
    /\ pc = 16

\* C7: an interrupt opcode is dequeued and executed only at an iteration
\* that starts with IE = 1: an iteration that starts with IE = 0 leaves the
\* queue alone, does not reset the cycle counter, and fetches the
\* instruction at PC.
C7_OnlyWhenEnabled ==
    [][(exc = "" /\ int_enable = 0) =>
          /\ interrupts' = interrupts
          /\ delivered' = delivered
          /\ exc' = "" => cycles' >= cycles
          /\ hist' # hist => (~hist'[1].irq /\ hist'[1].pre.pc = pc)]_vars

\* C7's case: the timer's threshold was reached with IE = 0 and the loop
\* fetched an instruction all the same
C7_FetchedPastThreshold ==
    /\ exc = "" /\ int_enable = 0
    /\ hist # <<>> /\ ~hist[1].irq
    /\ hist[1].pre.int_enable = 0
    /\ refresh(hist[1].pre.cycles) # <<>>
    /\ interrupts = <<>>

\* C8: whenever an iteration starts with IE set and the queue non-empty one
\* opcode is popped and executed, and the length of the queue never exceeds
\* 2.
C8_QueueDrained ==
    [][/\ Len(interrupts') <= 2
       /\ (exc = "" /\ int_enable # 0 /\ interrupts # <<>>) =>
             /\ Len(delivered') = Len(delivered) + 1
             /\ delivered'[Len(delivered')] = Head(interrupts)]_vars

\* C9: Display.refresh returns nothing for a cycle count below 16,666, half
\* a frame at 2 MHz and 60 Hz, and 0xCF, 0xD7 for a cycle count of 16,666 or
\* more.
C9_HalfFrameThreshold ==
    steps = 1 =>
        interrupts = (IF cycles >= ClockHz \div (2 * FramesPerSecond)
                      THEN <<\hCF, \hD7>> ELSE <<>>)

(***************************************************************************)
(* Properties of the flags                                                 *)
(***************************************************************************)
\* C10: after ADD, ADC, SUB, SBB, ANA, XRA, ORA, CMP, their immediate forms,
\* INR, DCR and DAA, P = 1 iff the low 8 bits of the result hold an even
\* number of 1-bits.  The result is what the instruction leaves in A or in
\* its register; for CMP and CPI it is A minus the operand.
C10_ParityOfLowByte ==
    (/\ hist # <<>>
     /\ hist[1].done
     /\ hist[1].op \in AluOps \cup ImmOps \cup InrOps \cup DcrOps \cup {\h27}
     /\ hist[1].op \notin {\h34, \h35})
       => LET op  == hist[1].op
              pre == hist[1].pre
              src == RegName(op % 8)
              val == IF op = \hFE THEN hist[1].arg1
                     ELSE IF src = "m" THEN Peek(memory, merge_bytes(pre.h, pre.l))
                     ELSE Get(pre, src)
              res == IF op \in InrOps \cup DcrOps THEN Get(Cur, RegName((op \div 8) % 8))
                     ELSE IF op = \hFE \/ op \in \hB8 .. \hBF THEN pre.a - val
                     ELSE a
          IN  (cc.p = 1) <=> (PopCount(res % 256) % 2 = 0)


(***************************************************************************)
(* Properties of the arithmetic and the compares                           *)
(***************************************************************************)
\* C11: ADD, ADI (carry-in 0) and ADC, ACI (carry-in CY) leave
\* A = (A + x + cin) & 0xFF, Z = 1 iff that is 0, S = its bit 7, CY = 1 iff
\* A + x + cin > 0xFF and AC = 1 iff (A & 0xF) + (x & 0xF) + cin > 0xF.
C11_AddSetsFlags ==
    (/\ hist # <<>>
     /\ hist[1].done
     /\ hist[1].op \in (\h80 .. \h8F) \cup {\hC6, \hCE})
       => LET pre == hist[1].pre
              x   == SourceValue(hist[1])
              cin == IF hist[1].op \in (\h88 .. \h8F) \cup {\hCE} THEN pre.cc.cy ELSE 0
              sum == pre.a + x + cin
          IN  /\ a = sum % 256
              /\ cc.z = B2I(sum % 256 = 0)
              /\ cc.s = (sum % 256) \div 128
              /\ cc.cy = B2I(sum > 255)
              /\ cc.ac = B2I((pre.a % 16) + (x % 16) + cin > 15)

\* C12: SUB, SUI (borrow-in 0) and SBB, SBI (borrow-in CY) leave
\* A = (A - x - bin) mod 256 and CY = 1 iff A < x + bin, x = 0xFF with
\* bin = 1 included.
C12_SubBorrows ==
    (/\ hist # <<>>
     /\ hist[1].done
     /\ hist[1].op \in (\h90 .. \h9F) \cup {\hD6, \hDE})
       => LET pre == hist[1].pre
              x   == SourceValue(hist[1])
              bin == IF hist[1].op \in (\h98 .. \h9F) \cup {\hDE} THEN pre.cc.cy ELSE 0
          IN  /\ a = (pre.a - x - bin) % 256
              /\ cc.cy = B2I(pre.a < x + bin)

\* C13: CMP r, CMP M and CPI leave A and the operand as they were, Z = 1 iff
\* A equals the operand named and CY = 1 iff A is less than it; for CMP r
\* the operand is register r, whatever the byte at HL.
C13_CmpNamedOperand ==
    (/\ hist # <<>>
     /\ hist[1].done
     /\ hist[1].op \in (\hB8 .. \hBF) \cup {\hFE})
       => LET pre == hist[1].pre
              x   == SourceValue(hist[1])
          IN  /\ a = pre.a
              /\ <<b, c, d, e, h, l>> = <<pre.b, pre.c, pre.d, pre.e, pre.h, pre.l>>
              /\ cc.z = B2I(pre.a = x)
              /\ cc.cy = B2I(pre.a < x)


(***************************************************************************)
(* Properties of the shift register and the ports                          *)
(***************************************************************************)
\* C14: after setOffset(o); shiftIn(x); shiftIn(y) (OUT 2, OUT 4, OUT 4) the
\* shift register holds (y << 8) | x, and read() (IN 3) returns
\* (((y << 8) | x) >> (8 - o)) & 0xFF, for every offset o in 0..7.
C14_ShiftRegisterRead ==
    LET o == Peek(memory, TestBase + 1)
        x == Peek(memory, TestBase + 5)
        y == Peek(memory, TestBase + 9)
    IN  /\ (exc = "" /\ pc = TestBase + 12) => shft_reg.register = y * 256 + x
        /\ (exc = "" /\ pc = TestBase + 14 /\ o \in 0 .. 7)
              => a = ((y * 256 + x) \div Pow2(8 - o)) % 256

\* C15: after setOffset(v) (OUT 2 with A = v) the offset of the shift
\* register is v & 0x07; in every state it lies in 0..7.
C15_OffsetIsLowThreeBits ==
    /\ shft_reg.offset \in 0 .. 7
    /\ (hist # <<>> /\ hist[1].done /\ hist[1].op = \hD3 /\ hist[1].arg1 = 2)
          => shft_reg.offset = hist[1].pre.a % 8


\* C16: IN from a port other than 1, 2 and 3 sets A to 0, OUT to a port
\* with no write handler (any port other than 2 and 4, whose handlers are
\* the shift register's) changes no device state; neither raises an error,
\* and PC is advanced by 2.
C16_UnknownPortsIgnored ==
    (hist # <<>> /\ hist[1].op \in {\hD3, \hDB} /\ hist[1].arg1 \in 0 .. 255)
       => /\ hist[1].done
          /\ pc = hist[1].pre.pc + 2
          /\ (hist[1].op = \hDB /\ hist[1].arg1 \notin {1, 2, 3}) => a = 0
          /\ (hist[1].op = \hD3 /\ hist[1].arg1 \notin {2, 4})
                => shft_reg = hist[1].pre.shft_reg


\* C17: for every opcode byte 0x00..0xFF, executing one instruction never
\* ends in the 'unimplemented opcode' error.
C17_EveryOpcodeDispatched ==
    (hist # <<>> /\ hist[1].op \in 0 .. 255) => exc # "NotImplementedError"


(***************************************************************************)
(* Properties of memory and of absolute addresses                          *)
(***************************************************************************)
\* C18: every address 0x0000..0xFFFF is readable and writable and no memory
\* access of an instruction fails: STA adr stores A at adr, SHLD adr stores
\* L at adr and H at adr + 1 masked to 16 bits, for every adr.
C18_MemoryIs64K ==
    hist # <<>> =>
        LET adr == merge_bytes(hist[1].arg2, hist[1].arg1)
        IN  /\ exc # "IndexError"
            /\ hist[1].op = \h32 =>
                  (hist[1].done /\ Peek(memory, adr) = hist[1].pre.a)
            /\ hist[1].op = \h22 =>
                  /\ hist[1].done
                  /\ Peek(memory, adr) = hist[1].pre.l
                  /\ Peek(memory, (adr + 1) % 65536) = hist[1].pre.h

\* C19: after PCHL, PC equals HL.
C19_PchlAssignsHl ==
    (hist # <<>> /\ hist[1].done /\ hist[1].op = \hE9)
       => pc = merge_bytes(hist[1].pre.h, hist[1].pre.l)

\* C20: SHLD adr writes L to memory[adr] and H to memory[adr + 1]; LHLD adr
\* (0x2A) reads L from memory[adr] and H from memory[adr + 1]; SHLD adr
\* followed by LHLD adr leaves HL as it was.
C20_ShldLhld ==
    /\ (hist # <<>> /\ hist[1].done /\ hist[1].op = \h22)
          => LET adr == merge_bytes(hist[1].arg2, hist[1].arg1)
             IN  /\ Peek(memory, adr) = hist[1].pre.l
                 /\ Peek(memory, adr + 1) = hist[1].pre.h
    /\ (hist # <<>> /\ hist[1].done /\ hist[1].op = \h2A)
          => LET adr == merge_bytes(hist[1].arg2, hist[1].arg1)
             IN  /\ l = Peek(memory, adr)
                 /\ h = Peek(memory, adr + 1)
    /\ (/\ Len(hist) >= 2
        /\ hist[2].done /\ hist[2].op = \h22
        /\ hist[1].done /\ hist[1].op = \h2A
        /\ <<hist[1].arg1, hist[1].arg2>> = <<hist[2].arg1, hist[2].arg2>>)
          => <<h, l>> = <<hist[2].pre.h, hist[2].pre.l>>

\* C21: XCHG executed twice in a row leaves HL and DE, and every other
\* register, the flags and the stack pointer, as they were before the first.
C21_XchgInvolution ==
    (/\ Len(hist) >= 2
     /\ hist[2].done /\ hist[2].op = \hEB
     /\ hist[1].done /\ hist[1].op = \hEB)
       => /\ <<h, l, d, e>> = <<hist[2].pre.h, hist[2].pre.l,
                                hist[2].pre.d, hist[2].pre.e>>
          /\ <<a, b, c, sp, cc>> = <<hist[2].pre.a, hist[2].pre.b,
                                     hist[2].pre.c, hist[2].pre.sp,
                                     hist[2].pre.cc>>

\* C22: an interrupt is accepted only with IE = 1; accepting RST n where
\* PC = p leaves p as the top-of-stack word, SP two below, PC = 8 * n and
\* IE = 0; IE becomes 1 again only by an EI that is fetched; and when the
\* handler's body leaves the stack alone its RET resumes at p with SP as it
\* was before the interrupt.
C22_InterruptAcceptance ==
    [][/\ delivered' # delivered =>
             /\ int_enable # 0
             /\ hist'[1].irq /\ hist'[1].op \in RstOps
             /\ merge_bytes(Peek(memory', sp' + 1), Peek(memory', sp')) = pc
             /\ sp' = sp - 2
             /\ pc' = 8 * ((hist'[1].op \div 8) % 8)
             /\ int_enable' = 0
       /\ (int_enable = 0 /\ int_enable' # 0) =>
             (hist' # hist /\ ~hist'[1].irq /\ hist'[1].op = \hFB)
       /\ (/\ hist' # hist
           /\ Len(hist') >= 3
           /\ hist'[3].irq
           /\ ~hist'[2].irq /\ hist'[2].op \in {\h00, \hFB, \hF3}
           /\ ~hist'[1].irq /\ hist'[1].op = \hC9 /\ hist'[1].done) =>
             (pc' = hist'[3].pre.pc /\ sp' = hist'[3].pre.sp)]_vars

\* C22's case: an interrupt was accepted at p, the handler executed EI and
\* its RET has resumed at p
C22_HandlerReturned ==
    /\ Len(hist) >= 3
    /\ hist[3].irq /\ hist[3].done
    /\ hist[2].op = \hFB
    /\ hist[1].op = \hC9 /\ hist[1].done
    /\ pc = hist[3].pre.pc
    /\ int_enable # 0

\* C23: an instruction that completes at address p and is not a taken jump,
\* call or return, an RST or PCHL leaves PC = p + its length: 3 for LXI,
\* SHLD, LHLD, STA, LDA and the jumps and calls, 2 for MVI, IN, OUT and the
\* immediate ALU forms, 1 for the rest.
C23_PcAdvancesByLength ==
    (/\ hist # <<>>
     /\ hist[1].done
     /\ hist[1].op \notin RstOps \cup {\hE9}
     /\ hist[1].op \notin RetOps \cup JmpOps \cup CallOps
     /\ ~(hist[1].op \in RccOps \cup JccOps \cup CccOps
          /\ Taken(hist[1].pre, Cond(hist[1].op))))
       => LET op == hist[1].op
              three == \/ (op < 64 /\ op % 16 = 1)
                       \/ op \in {\h22, \h2A, \h32, \h3A}
                       \/ (op >= 192 /\ op % 8 \in {2, 4})
                       \/ op \in {\hC3, \hCB, \hCD, \hDD, \hED, \hFD}
              two   == \/ (op < 64 /\ op % 8 = 6)
                       \/ (op >= 192 /\ op % 8 = 6)
                       \/ op \in {\hD3, \hDB}
          IN  pc = hist[1].pre.pc + (IF three THEN 3 ELSE IF two THEN 2 ELSE 1)

\* C23's case: a conditional jump that was not taken has advanced PC by 3
C23_JumpNotTaken ==
    /\ hist # <<>> /\ hist[1].done
    /\ hist[1].op = \hC2 /\ hist[1].pre.cc.z # 0
    /\ pc = hist[1].pre.pc + 3

\* C24: INR and DCR, on a register or on M, leave the CY flag as it was.
C24_IncDecKeepCarry ==
    (hist # <<>> /\ hist[1].done /\ hist[1].op \in InrOps \cup DcrOps)
       => cc.cy = hist[1].pre.cc.cy

\* C25: INR and DCR of an operand v in 0..255 complete and store
\* (v + 1) % 256 and (v - 1) % 256 with Z and S of the stored byte, for a
\* register and for M (here M as an MVI M has just written it): INR of 0xFF
\* stores 0 with Z = 1, DCR of 0 stores 0xFF with S = 1.
C25_IncDecWrap ==
    /\ (/\ hist # <<>>
        /\ hist[1].op \in (InrOps \cup DcrOps) \ {\h34, \h35}
        /\ Get(hist[1].pre, RegName(hist[1].op \div 8)) \in 0 .. 255)
          => LET v   == Get(hist[1].pre, RegName(hist[1].op \div 8))
                 res == IF hist[1].op \in InrOps THEN (v + 1) % 256
                                                 ELSE (v - 1) % 256
             IN  /\ hist[1].done
                 /\ Get(Cur, RegName(hist[1].op \div 8)) = res
                 /\ cc.z = B2I(res = 0)
                 /\ cc.s = B2I(res >= 128)
    /\ (/\ Len(hist) >= 2
        /\ hist[2].op = \h36 /\ hist[2].done
        /\ hist[1].op \in {\h34, \h35})
          => LET res == IF hist[1].op = \h34 THEN (hist[2].arg1 + 1) % 256
                                             ELSE (hist[2].arg1 - 1) % 256
             IN  /\ hist[1].done
                 /\ Peek(memory, hl(Cur)) = res
                 /\ cc.z = B2I(res = 0)
                 /\ cc.s = B2I(res >= 128)

\* C26: from A in 0..255 and CY in {0, 1} each rotate turns A by one bit
\* within 8 bits, sets CY to the bit shifted out and leaves Z, S, P and AC
\* alone: RLC and RAL shift left and move bit 7 to CY, filling bit 0 with
\* the old bit 7 (RLC) or the old CY (RAL); RRC and RAR shift right and move
\* bit 0 to CY, filling bit 7 with the old bit 0 (RRC) or the old CY (RAR).
C26_Rotates ==
    (/\ hist # <<>>
     /\ hist[1].op \in {\h07, \h0F, \h17, \h1F}
     /\ hist[1].pre.a \in 0 .. 255
     /\ hist[1].pre.cc.cy \in {0, 1})
       => LET op   == hist[1].op
              x    == hist[1].pre.a
              cin  == hist[1].pre.cc.cy
              bit7 == x \div 128
              bit0 == x % 2
          IN  /\ hist[1].done
              /\ a = CASE op = \h07 -> ((2 * x) % 256) + bit7
                       [] op = \h0F -> (x \div 2) + 128 * bit0
                       [] op = \h17 -> ((2 * x) % 256) + cin
                       [] op = \h1F -> (x \div 2) + 128 * cin
              /\ cc.cy = IF op \in {\h07, \h17} THEN bit7 ELSE bit0
              /\ <<cc.z, cc.s, cc.p, cc.ac>> =
                    <<hist[1].pre.cc.z, hist[1].pre.cc.s,
                      hist[1].pre.cc.p, hist[1].pre.cc.ac>>

\* C27: from A in 0..255 and AC, CY in {0, 1}, DAA adds 6 when the low
\* nibble of A is above 9 or AC is set, then adds 0x60 and sets CY when the
\* high nibble is above 9 or CY is set, and otherwise leaves CY as it was;
\* Z, S and P are those of the final A.  A CY set on entry stays set.
C27_DaaReference ==
    (/\ hist # <<>>
     /\ hist[1].op = \h27
     /\ hist[1].pre.a \in 0 .. 255
     /\ hist[1].pre.cc.cy \in {0, 1}
     /\ hist[1].pre.cc.ac \in {0, 1})
       => LET x   == hist[1].pre.a
              a1  == IF x % 16 > 9 \/ hist[1].pre.cc.ac = 1
                     THEN (x + 6) % 256 ELSE x
              hi  == a1 \div 16 > 9 \/ hist[1].pre.cc.cy = 1
              a2  == IF hi THEN (a1 + 96) % 256 ELSE a1
          IN  /\ hist[1].done
              /\ a = a2
              /\ cc.cy = IF hi THEN 1 ELSE hist[1].pre.cc.cy
              /\ cc.z = B2I(a2 = 0)
              /\ cc.s = B2I(a2 >= 128)
              /\ cc.p = parity(a2)

\* C28: the cycle counter never decreases from one iteration of the loop to
\* the next, except at an iteration that delivers an interrupt: that one
\* restarts it from 0, so that it holds the cycles of the delivered RST.
C28_CyclesMonotonic ==
    [][IF delivered' # delivered
       THEN cycles' = 22
       ELSE cycles' >= cycles]_vars

\* C29: each of the flags Z, S, P, CY, AC is 0 or 1 in every state, so that
\* the packed flag byte holds CY in bit 0 alone.
C29_FlagsAreBits ==
    /\ \A f \in {"z", "s", "p", "cy", "ac"} : cc[f] \in {0, 1}
    /\ FlagsInt(cc) % 2 = cc.cy

\* C30: the interrupt opcodes the loop has executed alternate, starting
\* with RST 1: the odd ones are 0xCF and the even ones 0xD7; and the
\* opcodes still queued continue the alternation.
C30_DeliveryAlternates ==
    \A i \in 1 .. Len(delivered) + Len(interrupts) :
        (delivered \o interrupts)[i] = IF i % 2 = 1 THEN \hCF ELSE \hD7

\* C30's case: three firings have been answered, by RST 1, RST 2 and RST 1
C30_ThreeDelivered ==
    /\ Len(delivered) >= 3
    /\ SubSeq(delivered, 1, 3) = <<\hCF, \hD7, \hCF>>
    /\ hist # <<>> /\ hist[1].irq /\ hist[1].op = \hCF

\* C31: an RST n fetched at address p leaves p + 1 as the top-of-stack word
\* and PC = 8 * n; when the routine's body leaves the stack alone its RET
\* resumes at p + 1, so the RST is not fetched again.
C31_FetchedRstIsCall ==
    /\ (hist # <<>> /\ ~hist[1].irq /\ hist[1].op \in RstOps /\ hist[1].done)
          => /\ pc = 8 * ((hist[1].op \div 8) % 8)
             /\ merge_bytes(Peek(memory, sp + 1), Peek(memory, sp))
                   = hist[1].pre.pc + 1
    /\ (/\ Len(hist) >= 3
        /\ ~hist[3].irq /\ hist[3].op \in RstOps /\ hist[3].done
        /\ ~hist[2].irq /\ hist[2].op \in {\h00, \hFB, \hF3}
        /\ ~hist[1].irq /\ hist[1].op = \hC9 /\ hist[1].done)
          => pc = hist[3].pre.pc + 1

=============================================================================
